---- MODULE Spec2Model ----
(***************************************************************************)
(* Model of swahilipot.py: the Attachee and DivisionManager classes.       *)
(*                                                                         *)
(* Attachee objects live in a heap `objs` (index = object identity, in     *)
(* creation order); DivisionManager.attachees maps each division name to   *)
(* the list of references it holds.  Scores and rates are kept in tenths   *)
(* (score 95 = 9.5), which is exact for values rounded to one decimal.     *)
(* `last` records the most recent call: its arguments, what it returned,   *)
(* what it printed and whether it raised.                                  *)
(***************************************************************************)
EXTENDS Integers, Sequences, FiniteSets, TLC

\* ---------------------------------------------------------------- bounds
\* Attachee objects, tasks and feedback records in existence, taken together
MaxSize == 4

\* ---------------------------------------------------------------- inputs
Names        == {"Alice"}
Descriptions == {"Fix bug"}
Texts        == {"Good"}
None         == "<None>"
Deadlines    == {None, "2023-11-15"}
Ratings      == {0, 1, 9, 10, 11}
Days         == {[year |-> 2023, month |-> 11, day |-> 5]}

\* DivisionManager.DIVISIONS
DIVISIONS == <<"Engineering", "Tech Programs", "Radio Support", "Hub Support">>

DivisionNames == {DIVISIONS[i] : i \in DOMAIN DIVISIONS}
\* the division names the calls are made with
DivisionArgs  == {"Engineering", "Hub Support", "Nonexistent"}

VARIABLES objs, attachees, datetime_bound, last

vars == <<objs, attachees, datetime_bound, last>>

\* ---------------------------------------------------------------- helpers
Abs(x) == IF x < 0 THEN -x ELSE x

\* round(x, 1) of x = num/(10*den), in tenths: to nearest, ties to even.
\* Python rounds the binary64 quotient; a mean of n ratings is a decimal tie
\* only at a multiple of 0.25 (exactly represented) while n < 20, and a
\* completion rate of n tasks is never one while n < 16.
RoundHalfEven(num, den) ==
    LET q == num \div den
        r == num % den
    IN  IF 2 * r < den THEN q
        ELSE IF 2 * r > den THEN q + 1
        ELSE IF q % 2 = 0 THEN q ELSE q + 1

RECURSIVE SumRatings(_)
SumRatings(fb) ==
    IF fb = <<>> THEN 0 ELSE fb[1].rating + SumRatings(Tail(fb))

RECURSIVE CountCompleted(_)
CountCompleted(ts) ==
    IF ts = <<>> THEN 0
    ELSE (IF ts[1].completed THEN 1 ELSE 0) + CountCompleted(Tail(ts))

\* date.strftime("%Y-%m-%d")
Pad2(n) == IF n < 10 THEN "0" \o ToString(n) ELSE ToString(n)

strftime(date) ==
    ToString(date.year) \o "-" \o Pad2(date.month) \o "-" \o Pad2(date.day)

\* What the bound counts: objects, tasks and feedback records.
RECURSIVE Size(_)
Size(os) ==
    IF os = <<>> THEN 0
    ELSE 1 + Len(os[1].tasks) + Len(os[1].feedback) + Size(Tail(os))

\* an Attachee that records the first division whatever it is given
NewAttacheeFirstDivision(name, division) ==
    [name |-> name, division |-> DIVISIONS[1],
     tasks |-> <<>>, feedback |-> <<>>, score |-> 0]

\* Attachee.__init__
NewAttachee(name, division) ==
    [name |-> name, division |-> division,
     tasks |-> <<>>, feedback |-> <<>>, score |-> 0]

\* add_feedback: `1 <= rating <= 10`
ValidRatingUpTo11(rating) == 1 <= rating /\ rating <= 11

ValidRating(rating) == 1 <= rating /\ rating <= 10

\* add_feedback: self.feedback.append(feedback)
RecordFeedbackFirst(fb, feedback) == <<feedback>> \o fb

RecordFeedback(fb, feedback) == Append(fb, feedback)

\* complete_task: `0 <= task_index < len(self.tasks)`
ValidIndex(task_index, tasks) == 0 <= task_index /\ task_index < Len(tasks)

\* complete_task: self.tasks[task_index]['completed'] = True
\* (Python index task_index is position task_index + 1)
ToggleCompleted(tasks, task_index) ==
    [tasks EXCEPT ![task_index + 1].completed = ~@]

MarkCompleted(tasks, task_index) ==
    [tasks EXCEPT ![task_index + 1].completed = TRUE]

\* add_attachee: `division not in self.DIVISIONS`, negated
AnyDivision(division) == TRUE

KnownDivision(division) == division \in DivisionNames

\* Attachee._calculate_score, in tenths
_calculate_score(fb) ==
    IF fb = <<>> THEN 0 ELSE RoundHalfEven(10 * SumRatings(fb), Len(fb))

\* a report whose completion_rate is cut, not rounded, to one decimal
get_performance_report_truncating(a) ==
    LET completed_tasks == CountCompleted(a.tasks)
        completion_rate == IF a.tasks # <<>>
                           THEN (1000 * completed_tasks) \div Len(a.tasks)
                           ELSE 0
    IN  [name            |-> a.name,
         division        |-> a.division,
         total_tasks     |-> Len(a.tasks),
         completed_tasks |-> completed_tasks,
         completion_rate |-> completion_rate,
         feedback_count  |-> Len(a.feedback),
         average_score   |-> a.score]

\* Attachee.get_performance_report; completion_rate in tenths of a percent
get_performance_report(a) ==
    LET completed_tasks == CountCompleted(a.tasks)
        completion_rate == IF a.tasks # <<>>
                           THEN RoundHalfEven(1000 * completed_tasks, Len(a.tasks))
                           ELSE 0
    IN  [name            |-> a.name,
         division        |-> a.division,
         total_tasks     |-> Len(a.tasks),
         completed_tasks |-> completed_tasks,
         completion_rate |-> completion_rate,
         feedback_count  |-> Len(a.feedback),
         average_score   |-> a.score]

\* The record of a call; each operation fills in the fields it uses.  A field
\* that may be absent is a sequence of zero or one values: index and rating
\* (the integer arguments), ret (the boolean add_attachee returns) and out
\* (the summary display_division_summary prints).  reports is the sequence of
\* reports returned (one for get_performance_report).
NoVal  == "-"
NoCall == [op |-> "init", division |-> NoVal, who |-> 0, index |-> <<>>,
           rating |-> <<>>, description |-> NoVal, deadline |-> NoVal,
           ret |-> <<>>, reports |-> <<>>, notice |-> NoVal, out |-> <<>>,
           raised |-> "none"]

\* ---------------------------------------------------------------- Init
\* `import datetime` sits inside `if __name__ == "__main__":`, so the name is
\* bound when the file is run as a script and unbound when it is imported.
Init ==
    /\ objs = <<>>
    /\ attachees = [d \in DivisionNames |-> <<>>]
    /\ datetime_bound \in BOOLEAN
    /\ last = NoCall

\* ---------------------------------------------------------------- Attachee
assign_task(who, task_description, deadline) ==
    /\ who \in DOMAIN objs
    /\ Size(objs) < MaxSize
    /\ LET task == [description |-> task_description,
                    completed   |-> FALSE,
                    deadline    |-> deadline]
       IN  objs' = [objs EXCEPT ![who].tasks = Append(@, task)]
    /\ last' = [NoCall EXCEPT !.op = "assign_task", !.who = who,
                              !.description = task_description,
                              !.deadline = deadline,
                              !.notice = "New task assigned"]
    /\ UNCHANGED <<attachees, datetime_bound>>

add_feedback(who, feedback_text, rating, today) ==
    /\ who \in DOMAIN objs
    /\ IF ~ValidRating(rating)
       THEN /\ last' = [NoCall EXCEPT !.op = "add_feedback", !.who = who,
                                      !.rating = <<rating>>,
                                      !.notice = "Error: Rating must be between 1 and 10"]
            /\ UNCHANGED objs
       ELSE IF ~datetime_bound
       THEN \* building the record evaluates datetime.date: NameError
            /\ last' = [NoCall EXCEPT !.op = "add_feedback", !.who = who,
                                      !.rating = <<rating>>,
                                      !.raised = "NameError"]
            /\ UNCHANGED objs
       ELSE /\ Size(objs) < MaxSize
            /\ LET feedback == [text |-> feedback_text, rating |-> rating,
                                date |-> strftime(today)]
                   fb == RecordFeedback(objs[who].feedback, feedback)
               IN  objs' = [objs EXCEPT ![who].feedback = fb,
                                        ![who].score = _calculate_score(fb)]
            /\ last' = [NoCall EXCEPT !.op = "add_feedback", !.who = who,
                                      !.rating = <<rating>>,
                                      !.notice = "Feedback recorded"]
    /\ UNCHANGED <<attachees, datetime_bound>>

complete_task(who, task_index) ==
    /\ who \in DOMAIN objs
    /\ IF ValidIndex(task_index, objs[who].tasks)
       THEN /\ objs' = [objs EXCEPT ![who].tasks = MarkCompleted(@, task_index)]
            /\ last' = [NoCall EXCEPT !.op = "complete_task", !.who = who,
                                      !.index = <<task_index>>,
                                      !.notice = "Task marked complete"]
       ELSE /\ last' = [NoCall EXCEPT !.op = "complete_task", !.who = who,
                                      !.index = <<task_index>>,
                                      !.notice = "Invalid task index"]
            /\ UNCHANGED objs
    /\ UNCHANGED <<attachees, datetime_bound>>

performance_report(who) ==
    /\ who \in DOMAIN objs
    /\ last' = [NoCall EXCEPT !.op = "get_performance_report", !.who = who,
                              !.reports = <<get_performance_report(objs[who])>>]
    /\ UNCHANGED <<objs, attachees, datetime_bound>>

\* ---------------------------------------------------------------- DivisionManager
add_attachee(name, division) ==
    /\ IF ~KnownDivision(division)
       THEN /\ last' = [NoCall EXCEPT !.op = "add_attachee", !.division = division,
                                      !.ret = <<FALSE>>,
                                      !.notice = "Error: Invalid division"]
            /\ UNCHANGED <<objs, attachees>>
       ELSE /\ Size(objs) < MaxSize
            /\ objs' = Append(objs, NewAttachee(name, division))
            /\ attachees' = [attachees EXCEPT ![division] = Append(@, Len(objs) + 1)]
            /\ last' = [NoCall EXCEPT !.op = "add_attachee", !.division = division,
                                      !.who = Len(objs) + 1, !.ret = <<TRUE>>,
                                      !.notice = "Added new attachee"]
    /\ UNCHANGED <<datetime_bound>>

\* The objects the loop of assign_division_task calls assign_task on.
AllAttachees(division) == DOMAIN objs

DivisionTaskTargets(division) ==
    {attachees[division][i] : i \in DOMAIN attachees[division]}

assign_division_task(division, task_description) ==
    /\ IF division \notin DOMAIN attachees
       THEN /\ last' = [NoCall EXCEPT !.op = "assign_division_task",
                                      !.division = division,
                                      !.notice = "Invalid division"]
            /\ UNCHANGED objs
       ELSE /\ Size(objs) + Cardinality(DivisionTaskTargets(division)) <= MaxSize
            /\ LET task == [description |-> task_description,
                            completed   |-> FALSE,
                            deadline    |-> None]
               IN  objs' = [w \in DOMAIN objs |->
                              IF w \in DivisionTaskTargets(division)
                              THEN [objs[w] EXCEPT !.tasks = Append(@, task)]
                              ELSE objs[w]]
            /\ last' = [NoCall EXCEPT !.op = "assign_division_task",
                                      !.division = division,
                                      !.description = task_description,
                                      !.notice = IF attachees[division] = <<>>
                                                 THEN NoVal ELSE "New task assigned"]
    /\ UNCHANGED <<attachees, datetime_bound>>

\* DivisionManager.get_division_performance, the value it returns
get_division_performance(division) ==
    IF division \notin DOMAIN attachees
    THEN <<>>
    ELSE [i \in DOMAIN attachees[division] |->
             get_performance_report(objs[attachees[division][i]])]

division_performance(division) ==
    /\ last' = [NoCall EXCEPT !.op = "get_division_performance",
                              !.division = division,
                              !.reports = get_division_performance(division),
                              !.notice = IF division \notin DOMAIN attachees
                                         THEN "Invalid division" ELSE NoVal]
    /\ UNCHANGED <<objs, attachees, datetime_bound>>

RECURSIVE SumAverageScores(_)
SumAverageScores(reports) ==
    IF reports = <<>> THEN 0
    ELSE reports[1].average_score + SumAverageScores(Tail(reports))

RECURSIVE SumRawRatings(_)
SumRawRatings(ids) ==
    IF ids = <<>> THEN 0
    ELSE SumRatings(objs[ids[1]].feedback) + SumRawRatings(Tail(ids))

RECURSIVE CountRawRatings(_)
CountRawRatings(ids) ==
    IF ids = <<>> THEN 0
    ELSE Len(objs[ids[1]].feedback) + CountRawRatings(Tail(ids))

\* the mean over every rating of the division instead
avg_raw_ratings(reports) ==
    LET ids == attachees[reports[1].division]
    IN  IF CountRawRatings(ids) = 0 THEN [num |-> 0, den |-> 1]
        ELSE [num |-> 10 * SumRawRatings(ids), den |-> CountRawRatings(ids)]

\* sum(r['average_score'] for r in performance_reports) / len(performance_reports)
\* as the exact quotient [num, den] of tenths.
avg_score(reports) == [num |-> SumAverageScores(reports), den |-> Len(reports)]

\* round(avg_score, 1), in tenths.  The binary64 sum of one-decimal scores is
\* exact only when every score is a multiple of 0.5; at a decimal tie that is
\* not exactly represented the direction depends on the representation error,
\* so both neighbours are admitted there.
RoundedAverages(reports) ==
    LET S == avg_score(reports).num
        k == avg_score(reports).den
        q == S \div k
        exact == /\ \A i \in DOMAIN reports : reports[i].average_score % 5 = 0
                 /\ ((2 * S) \div k) % 5 = 0
    IN  IF 2 * (S % k) # k \/ exact THEN {RoundHalfEven(S, k)} ELSE {q, q + 1}

display_division_summary(division) ==
    /\ IF division \notin DOMAIN attachees
       THEN last' = [NoCall EXCEPT !.op = "display_division_summary",
                                   !.division = division,
                                   !.notice = "Invalid division"]
       ELSE LET performance_reports == get_division_performance(division)
            IN  IF performance_reports = <<>>
                THEN last' = [NoCall EXCEPT !.op = "display_division_summary",
                                            !.division = division,
                                            !.notice = "No attachees in this division"]
                ELSE \E shown \in RoundedAverages(performance_reports) :
                        last' = [NoCall EXCEPT
                                   !.op = "display_division_summary",
                                   !.division = division,
                                   !.notice = "Division average score",
                                   !.out = <<[reports   |-> performance_reports,
                                              avg_score |-> avg_score(performance_reports),
                                              shown     |-> shown]>>]
    /\ UNCHANGED <<objs, attachees, datetime_bound>>

\* ---------------------------------------------------------------- Next
\* Attachee methods are called on the objects the manager holds; task indices
\* run from one below the first to one past the last.
Next ==
    \/ \E n \in Names, d \in DivisionArgs : add_attachee(n, d)
    \/ \E d \in DivisionArgs, t \in Descriptions : assign_division_task(d, t)
    \/ \E d \in DivisionArgs : division_performance(d)
    \/ \E d \in DivisionArgs : display_division_summary(d)
    \/ \E w \in DOMAIN objs, t \in Descriptions, dl \in Deadlines :
          assign_task(w, t, dl)
    \/ \E w \in DOMAIN objs, t \in Texts, r \in Ratings, day \in Days :
          add_feedback(w, t, r, day)
    \/ \E w \in DOMAIN objs : \E i \in -1 .. Len(objs[w].tasks) : complete_task(w, i)
    \/ \E w \in DOMAIN objs : performance_report(w)

Spec == Init /\ [][Next]_vars

\* ================================================================ claims
\* v (in tenths) is num/den rounded to one decimal place, whatever the rule
\* for ties: it lies within 0.05 of num/den.
RoundedToOneDecimal(v, num, den) == 2 * Abs(v * den - 10 * num) <= den

IsPrefix(s, t) == Len(s) <= Len(t) /\ SubSeq(t, 1, Len(s)) = s

NumCompleted(tasks) == Cardinality({i \in DOMAIN tasks : tasks[i].completed})

RECURSIVE SumScores(_)
SumScores(ids) ==
    IF ids = <<>> THEN 0 ELSE objs[ids[1]].score + SumScores(Tail(ids))

FourDivisions == {"Engineering", "Tech Programs", "Radio Support", "Hub Support"}

\* C1: add_feedback(text, r) with 1 <= r <= 10 appends exactly one record, last,
\* and leaves score equal to the mean of all ratings now in feedback, rounded
\* to one decimal place.
C1_ValidFeedbackAppendsAndRescores ==
    [][(last'.op = "add_feedback" /\ last'.rating[1] \in 1 .. 10) =>
         LET before == objs[last'.who].feedback
             after  == objs'[last'.who].feedback
         IN  /\ Len(after) = Len(before) + 1
             /\ IsPrefix(before, after)
             /\ after[Len(after)].rating = last'.rating[1]
             /\ RoundedToOneDecimal(objs'[last'.who].score,
                                    SumRatings(after), Len(after))]_vars

\* C2: add_feedback(text, r) with r < 1 or r > 10 leaves the feedback, the
\* score and the tasks of the Attachee (and everything else) unchanged.
C2_InvalidRatingChangesNothing ==
    [][(last'.op = "add_feedback" /\ (last'.rating[1] < 1 \/ last'.rating[1] > 10)) =>
         /\ objs'[last'.who].feedback = objs[last'.who].feedback
         /\ objs'[last'.who].score = objs[last'.who].score
         /\ objs'[last'.who].tasks = objs[last'.who].tasks
         /\ objs' = objs /\ attachees' = attachees]_vars

C2_Witness ==
    /\ last.op = "add_feedback"
    /\ last.rating = <<11>>
    /\ objs[last.who].feedback # <<>>
    /\ objs[last.who].tasks # <<>>

\* C3: no public operation ever raises an error.
C3_NoOperationRaises == last.raised = "none"

\* C4: complete_task(i) with 0 <= i < len(tasks) sets tasks[i].completed and
\* leaves every other task, and the description and deadline of task i,
\* unchanged; with any other i it leaves all tasks unchanged.
C4_CompleteTaskFrame ==
    [][last'.op = "complete_task" =>
         LET before == objs[last'.who].tasks
             after  == objs'[last'.who].tasks
             i      == last'.index[1]
         IN  /\ Len(after) = Len(before)
             /\ \A w \in DOMAIN objs : w # last'.who => objs'[w] = objs[w]
             /\ IF 0 <= i /\ i < Len(before)
                THEN /\ after[i + 1].completed = TRUE
                     /\ after[i + 1].description = before[i + 1].description
                     /\ after[i + 1].deadline = before[i + 1].deadline
                     /\ \A j \in DOMAIN before : j # i + 1 => after[j] = before[j]
                ELSE after = before]_vars

C4_Witness ==
    /\ last.op = "complete_task"
    /\ last.index = <<1>>
    /\ Len(objs[last.who].tasks) = 3
    /\ objs[last.who].tasks[2].completed
    /\ objs[last.who].tasks[2].deadline # None
    /\ ~objs[last.who].tasks[3].completed

\* C5: with a division name outside the four, add_attachee returns False and
\* creates no Attachee, get_division_performance returns an empty sequence,
\* assign_division_task and display_division_summary do nothing, and no
\* division's sequence and no Attachee changes.
C5_UnknownDivisionChangesNothing ==
    [][(last'.division # NoVal /\ last'.division \notin FourDivisions) =>
         /\ objs' = objs
         /\ attachees' = attachees
         /\ last'.op = "add_attachee" => last'.ret = <<FALSE>>
         /\ last'.op = "get_division_performance" => last'.reports = <<>>
         /\ last'.op \in {"assign_division_task", "display_division_summary"} =>
               last'.notice = "Invalid division" /\ last'.out = <<>>]_vars

C5_Witness ==
    /\ last.op = "add_attachee"
    /\ last.division = "Nonexistent"
    /\ last.ret = <<FALSE>>
    /\ Len(objs) = 2

\* C6: every Attachee in attachees[d] has division d, the keys of attachees
\* are exactly the four division names, and no Attachee appears in two
\* divisions' sequences or twice in one.
C6_DivisionMembership ==
    /\ DOMAIN attachees = FourDivisions
    /\ \A d \in DOMAIN attachees : \A i \in DOMAIN attachees[d] :
          /\ attachees[d][i] \in DOMAIN objs
          /\ objs[attachees[d][i]].division = d
    /\ \A d1, d2 \in DOMAIN attachees :
          \A i1 \in DOMAIN attachees[d1], i2 \in DOMAIN attachees[d2] :
             attachees[d1][i1] = attachees[d2][i2] => d1 = d2 /\ i1 = i2

C6_Witness ==
    /\ Len(attachees["Hub Support"]) = 2
    /\ Len(attachees["Engineering"]) = 1
    /\ last.op = "assign_division_task"

\* C7: assign_division_task(d, description) for a recognized d appends one
\* task (not completed, no deadline) to every Attachee then in d's sequence
\* and to no other; an Attachee added later starts without tasks.
C7_DivisionTaskReachesMembersOnly ==
    [][/\ (last'.op = "assign_division_task" /\ last'.division \in FourDivisions) =>
            /\ attachees' = attachees
            /\ \A w \in DOMAIN objs :
                  IF \E i \in DOMAIN attachees[last'.division] :
                        attachees[last'.division][i] = w
                  THEN /\ objs'[w].tasks =
                            Append(objs[w].tasks,
                                   [description |-> last'.description,
                                    completed   |-> FALSE,
                                    deadline    |-> None])
                       /\ objs'[w].feedback = objs[w].feedback
                       /\ objs'[w].score = objs[w].score
                  ELSE objs'[w] = objs[w]
       /\ (last'.op = "add_attachee" /\ last'.ret = <<TRUE>>) =>
            /\ Len(objs') = Len(objs) + 1
            /\ objs'[Len(objs')].tasks = <<>>]_vars

C7_Witness ==
    /\ last.op = "assign_division_task"
    /\ last.division = "Engineering"
    /\ Len(attachees["Engineering"]) = 1
    /\ Len(attachees["Hub Support"]) = 1
    /\ Len(objs[attachees["Engineering"][1]].tasks) = 2
    /\ objs[attachees["Hub Support"][1]].tasks = <<>>

\* C8: get_performance_report changes no state and returns the task count,
\* the count of completed tasks, the feedback count, the current score, and
\* completion_rate = 100 * completed / total rounded to one decimal (0 with no
\* tasks); so 0 <= completed_tasks <= total_tasks and 0 <= rate <= 100.
C8_PerformanceReport ==
    [][last'.op = "get_performance_report" =>
         LET a == objs[last'.who]
             r == last'.reports[1]
         IN  /\ objs' = objs /\ attachees' = attachees
             /\ r.total_tasks = Len(a.tasks)
             /\ r.completed_tasks = NumCompleted(a.tasks)
             /\ r.feedback_count = Len(a.feedback)
             /\ r.average_score = a.score
             /\ IF a.tasks = <<>>
                THEN r.completion_rate = 0
                ELSE RoundedToOneDecimal(r.completion_rate,
                                         100 * NumCompleted(a.tasks), Len(a.tasks))
             /\ 0 <= r.completed_tasks /\ r.completed_tasks <= r.total_tasks
             /\ 0 <= r.completion_rate /\ r.completion_rate <= 1000]_vars

C8_Witness ==
    /\ last.op = "get_performance_report"
    /\ last.reports[1].total_tasks = 3
    /\ last.reports[1].completed_tasks = 2
    /\ last.reports[1].completion_rate = 667

\* C9: for a recognized division with Attachees, display_division_summary
\* reports the unweighted mean of their average_score fields (0 for those
\* without feedback), rounded to one decimal; for a recognized division
\* without Attachees it prints the "no attachees" notice and no average.
C9_DivisionAverage ==
    (last.op = "display_division_summary" /\ last.division \in FourDivisions) =>
       LET ids == attachees[last.division]
       IN  IF ids = <<>>
           THEN last.notice = "No attachees in this division" /\ last.out = <<>>
           ELSE /\ Len(last.out) = 1
                /\ last.out[1].avg_score.num = SumScores(ids)
                /\ last.out[1].avg_score.den = Len(ids)
                /\ RoundedToOneDecimal(last.out[1].shown, SumScores(ids), 10 * Len(ids))

C9_Witness ==
    /\ last.op = "display_division_summary"
    /\ last.division = "Engineering"
    /\ Len(attachees["Engineering"]) = 2
    /\ objs[attachees["Engineering"][1]].score = 95
    /\ objs[attachees["Engineering"][2]].score = 0
    /\ last.out[1].shown = 48

\* C10: tasks and feedback are append-only: a record keeps its position, a
\* feedback record never changes and has 1 <= rating <= 10, and a completed
\* flag once true stays true (completing a completed task changes nothing).
C10_AppendOnly ==
    [][/\ Len(objs') >= Len(objs)
       /\ \A w \in DOMAIN objs :
             /\ IsPrefix(objs[w].feedback, objs'[w].feedback)
             /\ Len(objs'[w].tasks) >= Len(objs[w].tasks)
             /\ \A j \in DOMAIN objs[w].tasks :
                   /\ objs'[w].tasks[j].description = objs[w].tasks[j].description
                   /\ objs'[w].tasks[j].deadline = objs[w].tasks[j].deadline
                   /\ objs[w].tasks[j].completed => objs'[w].tasks[j].completed
       /\ \A w \in DOMAIN objs' : \A j \in DOMAIN objs'[w].feedback :
             objs'[w].feedback[j].rating \in 1 .. 10
       /\ (/\ last'.op = "complete_task"
           /\ last'.index[1] \in 0 .. Len(objs[last'.who].tasks) - 1
           /\ objs[last'.who].tasks[last'.index[1] + 1].completed) => objs' = objs]_vars

C10_Witness ==
    /\ last.op = "complete_task"
    /\ last.index = <<0>>
    /\ Len(objs[last.who].tasks) = 2
    /\ objs[last.who].tasks[1].completed
    /\ Len(objs[last.who].feedback) = 1
====
